---------------------------- MODULE Spec2Model ----------------------------
(***************************************************************************)
(* Verification model of the Continuous Capture & Semantic Recall          *)
(* pipeline of openrecall: the Storage Layer (database.py), the Recording  *)
(* Controller used by screenshot.py and app.py, and the Batch Reprocessing *)
(* Engine (recording_controller.py: SimpleProcessingCache and              *)
(* SimpleOptimizedProcessor).                                              *)
(*                                                                         *)
(* Conventions.  Texts are TLA+ strings handled character by character,    *)
(* the way the Python code handles them.  The store is the sequence of     *)
(* rows of table `entries`; a row's id is its index (INTEGER PRIMARY KEY   *)
(* AUTOINCREMENT on a table the core never deletes from).  An embedding    *)
(* blob is kept as the number of floats written, the byte width of one     *)
(* float, and the text it was computed from.  The storage engine executes  *)
(* every statement it is given: the `except sqlite3.Error` branches of     *)
(* the handlers are outside the model.                                     *)
(***************************************************************************)
EXTENDS Integers, Sequences, FiniteSets, TLC

(***************************************************************************)
(* Bounds of the model.                                                    *)
(***************************************************************************)
MaxTimestamp == 2
MaxEntries == 2
EmbDim == 2

None == "<None>"

(***************************************************************************)
(* Characters and character classes (Python str / re semantics on the      *)
(* ASCII subset the model uses).                                           *)
(***************************************************************************)
UpperCase == "ABCDEFGHIJKLMNOPQRSTUVWXYZ"
LowerCase == "abcdefghijklmnopqrstuvwxyz"

Char(s, i) == SubSeq(s, i, i)

UpperLetters ==
    { "A", "B", "C", "D", "E", "F", "G", "H", "I", "J", "K", "L", "M",
      "N", "O", "P", "Q", "R", "S", "T", "U", "V", "W", "X", "Y", "Z" }
LowerLetters ==
    { "a", "b", "c", "d", "e", "f", "g", "h", "i", "j", "k", "l", "m",
      "n", "o", "p", "q", "r", "s", "t", "u", "v", "w", "x", "y", "z" }
DigitChars == { "0", "1", "2", "3", "4", "5", "6", "7", "8", "9" }
SpaceChars == { " ", "\t", "\n" }
\* the punctuation kept by clean_ocr_text: - . , ! ? ; : ( ) " ' /
AllowedPunct ==
    { "-", ".", ",", "!", "?", ";", ":", "(", ")", "\"", "'", "/" }

IsAlpha(c) == c \in UpperLetters \/ c \in LowerLetters
IsDigit(c) == c \in DigitChars
IsWordChar(c) == IsAlpha(c) \/ IsDigit(c) \/ c = "_"
IsSpace(c) == c \in SpaceChars

LowerChar(c) ==
    IF c \in UpperLetters
    THEN Char(LowerCase, CHOOSE i \in 1..Len(UpperCase) : Char(UpperCase, i) = c)
    ELSE c

RECURSIVE LowerFrom(_, _)
LowerFrom(s, i) ==
    IF i > Len(s) THEN "" ELSE LowerChar(Char(s, i)) \o LowerFrom(s, i + 1)

StrLower(s) == LowerFrom(s, 1)

Contains(s, sub) ==
    \E i \in 1..(Len(s) - Len(sub) + 1) : SubSeq(s, i, i + Len(sub) - 1) = sub

(***************************************************************************)
(* clean_ocr_text, step by step.                                           *)
(***************************************************************************)
RECURSIVE StripArtifactsFrom(_, _)
StripArtifactsFrom(s, i) ==
    IF i > Len(s) THEN ""
    ELSE LET c == Char(s, i)
         IN  (IF IsWordChar(c) \/ IsSpace(c) \/ c \in AllowedPunct
              THEN c ELSE " ") \o StripArtifactsFrom(s, i + 1)

\* re.sub(r'[^\w\s\-.,!?;:()"\'/]', ' ', raw_text)
StripArtifacts(s) == StripArtifactsFrom(s, 1)

RECURSIVE CollapseSpacesFrom(_, _)
CollapseSpacesFrom(s, i) ==
    IF i > Len(s) THEN ""
    ELSE IF IsSpace(Char(s, i))
         THEN IF i > 1 /\ IsSpace(Char(s, i - 1))
              THEN CollapseSpacesFrom(s, i + 1)
              ELSE " " \o CollapseSpacesFrom(s, i + 1)
         ELSE Char(s, i) \o CollapseSpacesFrom(s, i + 1)

\* re.sub(r'\s+', ' ', text)
CollapseSpaces(s) == CollapseSpacesFrom(s, 1)

\* A cleaning that leaves repeated characters as they are
KeepRepeats(s) == s

\* Length of the run of characters equal to s[i] that starts at i.
RECURSIVE RunLength(_, _)
RunLength(s, i) ==
    IF i < Len(s) /\ Char(s, i + 1) = Char(s, i)
    THEN 1 + RunLength(s, i + 1) ELSE 1

RECURSIVE CollapseRepeatsFrom(_, _)
CollapseRepeatsFrom(s, i) ==
    IF i > Len(s) THEN ""
    ELSE LET c == Char(s, i)
             n == RunLength(s, i)
         IN  IF IsWordChar(c) /\ n >= 4
             THEN c \o c \o CollapseRepeatsFrom(s, i + n)
             ELSE c \o CollapseRepeatsFrom(s, i + 1)

\* re.sub(r'(\w)\1{3,}', r'\1\1', text)
CollapseRepeats(s) == CollapseRepeatsFrom(s, 1)

\* str.split(): the maximal runs of non-whitespace characters, in order.
RECURSIVE SplitFrom(_, _, _)
SplitFrom(s, i, cur) ==
    IF i > Len(s)
    THEN IF cur = "" THEN << >> ELSE << cur >>
    ELSE IF IsSpace(Char(s, i))
         THEN IF cur = "" THEN SplitFrom(s, i + 1, "")
              ELSE << cur >> \o SplitFrom(s, i + 1, "")
         ELSE SplitFrom(s, i + 1, cur \o Char(s, i))

Split(s) == SplitFrom(s, 1, "")

AllDigits(w) == Len(w) > 0 /\ \A i \in 1..Len(w) : IsDigit(Char(w, i))
AnyAlpha(w) == \E i \in 1..Len(w) : IsAlpha(Char(w, i))

KeepWord(w) ==
    /\ ~(Len(w) < 2 \/ Len(w) > 25)
    /\ ~(AllDigits(w) /\ Len(w) > 10)
    /\ AnyAlpha(w)

RECURSIVE JoinWords(_)
JoinWords(ws) ==
    IF ws = << >> THEN ""
    ELSE IF Len(ws) = 1 THEN ws[1]
    ELSE ws[1] \o " " \o JoinWords(Tail(ws))

Truncate(s, n) == IF Len(s) > n THEN SubSeq(s, 1, n) ELSE s

CleanWith(raw_text, limit) ==
    IF raw_text = "" THEN ""
    ELSE LET text == CollapseRepeats(CollapseSpaces(StripArtifacts(raw_text)))
             cleaned_words == SelectSeq(Split(text), KeepWord)
         IN  Truncate(JoinWords(cleaned_words), limit)

\* The length bounds of the two cleaners (2000 and 1000 in the program),
\* scaled down; no text of the other parts of the model reaches them.
LIVE_TEXT_LIMIT == 23
BULK_TEXT_LIMIT == 21

(***************************************************************************)
(* Texts the model feeds to the program.                                   *)
(***************************************************************************)
RawTexts == { "def main()", "## 42 !!", "Activity/Task: code" }
VisionAnswers == { None, "Editor window" }
LlmAnswers == { None, "The user is working" }

\* database.clean_ocr_text
clean_ocr_text(raw_text) == CleanWith(raw_text, LIVE_TEXT_LIMIT)


(***************************************************************************)
(* Program state.                                                          *)
(***************************************************************************)
VARIABLES
    entries,        \* table `entries`: sequence of rows, row id = index
    files,          \* names of the assets in the screenshots directory
    insertCall,     \* history: << timestamp >> of the last insert_entry call
    insertResult,   \* value returned by the last insert_entry call
    cacheFile,      \* content of simple_processing_cache.pkl, or NoFile
    pc,             \* position of the reprocessing process
    dry_run, limit, force_reprocess,    \* arguments of run_processing
    processed_ids,  \* SimpleProcessingCache.processed_ids (in memory)
    run_entries,    \* `entries` of run_processing: the candidates
    done_ids,       \* futures already yielded by as_completed
    results_batch, completed, total_updated, total_errors,
    runs,           \* history: one record per run started
    ctlState,       \* Recording Controller: "Recording", "Paused", "Stopped"
    go,             \* the shared "go" signal
    terminal,       \* the terminal (stop) signal
    ctlResult,      \* the last controller call and what it returned
    waiters,        \* the threads that call wait_if_paused
    readCall,       \* history: the last get_all_entries, search or
                    \* clean_ocr_text call
    readResult,     \* what that request returned
    loopPc,         \* position of the capture thread in its loop
    last_screenshots,   \* the retained frames, if set
    screenshots,    \* the frames taken in the cycle in progress
    mon,            \* index i of the for loop over the frames
    now,            \* int(time.time())
    cycleStamps,    \* history: timestamps of the entries the cycle in
                    \* progress has inserted
    sincePause      \* history: what the loop did since pause() last
                    \* returned True

storeVars == << entries, files, insertCall, insertResult >>
reprocVars == << cacheFile, pc, dry_run, limit, force_reprocess, processed_ids,
                 run_entries, done_ids, results_batch, completed,
                 total_updated, total_errors, runs >>
ctlVars == << ctlState, go, terminal, ctlResult, waiters >>
readVars == << readCall, readResult >>
loopState == << loopPc, last_screenshots, screenshots, mon, now, cycleStamps >>
loopVars == << loopState, sincePause >>
vars == << storeVars, reprocVars, ctlVars, readVars, loopVars >>

(***************************************************************************)
(* Storage Layer (database.py).                                            *)
(***************************************************************************)
NoMon == -1

\* f"{timestamp}.{ext}" when monitor = NoMon, f"{timestamp}_{monitor}.{ext}"
\* otherwise
FileName(timestamp, monitor, ext) ==
    ToString(timestamp)
        \o (IF monitor = NoMon THEN "" ELSE "_" \o ToString(monitor))
        \o "." \o ext

\* openrecall.nlp.get_embedding: a vector of EmbDim floats computed from text
get_embedding(text) == [n |-> EmbDim, of |-> text]

\* ndarray.astype(dtype).tobytes(): n floats of `width` bytes each
ToBytes(array, width) == [n |-> array.n, width |-> width, of |-> array.of]

Timestamps(rows) == { rows[i].timestamp : i \in 1..Len(rows) }

\* get_vision_description: the screenshot file found for a timestamp
vision_screenshot_path(dir, timestamp) ==
    IF FileName(timestamp, NoMon, "webp") \in dir
    THEN FileName(timestamp, NoMon, "webp")
    ELSE IF FileName(timestamp, NoMon, "jpg") \in dir
    THEN FileName(timestamp, NoMon, "jpg")
    ELSE IF FileName(timestamp, NoMon, "png") \in dir
    THEN FileName(timestamp, NoMon, "png")
    ELSE IF FileName(timestamp, NoMon, "jpeg") \in dir
    THEN FileName(timestamp, NoMon, "jpeg")
    ELSE None

\* database.get_vision_description: `dir` is the screenshots directory at
\* the time of the call, `service` is what the description
\* service answers for the image (None: error, timeout or empty answer).
get_vision_description(dir, timestamp, service) ==
    IF vision_screenshot_path(dir, timestamp) # None
    THEN service
    ELSE None

\* A row holding the text as extracted, whatever the description service
\* answers
InsertRawRow(dir, raw_text, timestamp, embedding, app, title, service) ==
    [app |-> app, title |-> title, text |-> raw_text, timestamp |-> timestamp,
     embedding |-> ToBytes(embedding, 4)]

InsertRow(dir, raw_text, timestamp, embedding, app, title, service) ==
    LET vision_description == get_vision_description(dir, timestamp, service)
        final_text == IF vision_description # None /\ vision_description # ""
                      THEN vision_description
                      ELSE clean_ocr_text(raw_text)
        final_embedding == IF final_text # "" THEN get_embedding(final_text)
                           ELSE embedding
    IN  [app |-> app, title |-> title, text |-> final_text,
         timestamp |-> timestamp,
         embedding |-> ToBytes(final_embedding, 4)]

\* Variants of the INSERT statement, against which the properties of
\* insert_entry are checked: INSERT OR REPLACE, and an INSERT on a table
\* without the unique index.
InsertOrReplace(rows, row) ==
    IF row.timestamp \in Timestamps(rows)
    THEN [i \in 1..Len(rows) |->
             IF rows[i].timestamp = row.timestamp THEN row ELSE rows[i]]
    ELSE Append(rows, row)

InsertAlways(rows, row) == Append(rows, row)

\* Variant: ON CONFLICT(timestamp) DO UPDATE SET text = excluded.text
InsertOrUpdate(rows, row) ==
    IF row.timestamp \in Timestamps(rows)
    THEN [i \in 1..Len(rows) |->
             IF rows[i].timestamp = row.timestamp
             THEN [rows[i] EXCEPT !.text = row.text] ELSE rows[i]]
    ELSE Append(rows, row)

\* INSERT ... ON CONFLICT(timestamp) DO NOTHING
InsertOrIgnore(rows, row) ==
    IF row.timestamp \in Timestamps(rows) THEN rows ELSE Append(rows, row)

\* What insert_entry returns: cursor.lastrowid, or None
RowId(id) == << id >>
NoRow == << >>

\* database.insert_entry
\* The INSERT statement of insert_entry and the value returned
ExecuteInsert(row) ==
    /\ row.timestamp \notin Timestamps(entries) => Len(entries) < MaxEntries
    /\ entries' = InsertOrIgnore(entries, row)
    /\ insertCall' = << row.timestamp >>
    /\ insertResult' = IF Len(entries') > Len(entries)
                       THEN RowId(Len(entries')) ELSE NoRow

insert_entry(raw_text, timestamp, embedding, app, title, service) ==
    \E row \in { InsertRow(files, raw_text, timestamp, embedding, app, title,
                           service) } :
        /\ ExecuteInsert(row)
        /\ UNCHANGED files

(***************************************************************************)
(* Batch Reprocessing Engine (recording_controller.py).                    *)
(* MAX_WORKERS, BATCH_SIZE and CHECKPOINT_INTERVAL are the program's       *)
(* constants (4, 20, 100) scaled down; the checkpoint interval stays a     *)
(* multiple of the batch size, as in the source.                           *)
(***************************************************************************)
MAX_WORKERS == 2
BATCH_SIZE == 2
CHECKPOINT_INTERVAL == 2

MaxRuns == 2
MaxLiveRuns == 1
NumEntries == 3

\* The cache file: absent, or holding a pickled set of ids
NoFile == [exists |-> FALSE, ids |-> {}]
Pickled(ids) == [exists |-> TRUE, ids |-> ids]

NoLimit == 0

\* SimpleProcessingCache.load_cache
load_cache(file) == IF file.exists THEN file.ids ELSE {}

\* SimpleProcessingCache.save_cache
save_cache(ids) == Pickled(ids)

\* Variant: a cache that is never consulted.
is_processed_never(ids, entry_id) == FALSE

\* SimpleProcessingCache.is_processed
is_processed(ids, entry_id) == entry_id \in ids

\* SimpleProcessingCache.mark_processed
mark_processed(ids, entry_id) == ids \cup {entry_id}

\* SimpleOptimizedProcessor.clean_ocr_text
bulk_clean_ocr_text(raw_text) == CleanWith(raw_text, BULK_TEXT_LIMIT)

Indicators ==
    { "enhanced description:", "activity/task:", "the user is working",
      "**activity" }

\* SimpleOptimizedProcessor.is_already_refined
is_already_refined(text) ==
    IF text = "" THEN FALSE
    ELSE LET text_lower == StrLower(text)
         IN  \E indicator \in Indicators : Contains(text_lower, indicator)

\* SimpleOptimizedProcessor.find_screenshot_file: the first candidate name
\* that exists, None when there is none.
ScreenshotCandidates(timestamp) ==
    << FileName(timestamp, NoMon, "webp"), FileName(timestamp, NoMon, "jpg"),
       FileName(timestamp, NoMon, "png"), FileName(timestamp, NoMon, "jpeg"),
       FileName(timestamp, 0, "webp"), FileName(timestamp, 0, "jpg") >>

find_screenshot_file(timestamp) ==
    LET candidates == ScreenshotCandidates(timestamp)
        hits == { k \in 1..Len(candidates) : candidates[k] \in files }
    IN  IF hits = {} THEN None
        ELSE candidates[CHOOSE k \in hits : \A j \in hits : k <= j]

\* SimpleOptimizedProcessor.process_single_entry.  `raises` says whether a
\* step of the body raises; vision and llm are the answers of the two
\* services (None: error, timeout or empty answer).
process_single_entry(entry_data, raises, vision, llm) ==
    LET screenshot_path == find_screenshot_file(entry_data.timestamp)
        had_screenshot == screenshot_path # None
        cleaned_ocr == bulk_clean_ocr_text(entry_data.text)
        vision_text == IF had_screenshot THEN vision ELSE None
        enhanced_text == IF llm # None THEN llm
                         ELSE IF vision_text # None THEN vision_text
                         ELSE cleaned_ocr
    IN  IF raises
        THEN [entry_id |-> entry_data.id, success |-> FALSE,
              enhanced_text |-> None, had_screenshot |-> FALSE]
        ELSE [entry_id |-> entry_data.id, success |-> TRUE,
              enhanced_text |-> enhanced_text,
              had_screenshot |-> had_screenshot]

\* SimpleOptimizedProcessor.get_embedding_batch: float32 vectors
get_embedding_batch(texts) ==
    [k \in 1..Len(texts) |-> ToBytes(get_embedding(texts[k]), 4)]

IsSuccessful(r) == r.success /\ r.enhanced_text # ""

\* Variant: the UPDATE statement without its WHERE clause.
UpdateEveryRow(rows, results, embeddings) ==
    IF results = << >> THEN rows
    ELSE [i \in 1..Len(rows) |->
             [rows[i] EXCEPT !.text = results[Len(results)].enhanced_text,
                             !.embedding = embeddings[Len(results)]]]

\* UPDATE entries SET text = ?, embedding = ? WHERE id = ?, for each result
RECURSIVE UpdateRows(_, _, _)
UpdateRows(rows, results, embeddings) ==
    IF results = << >> THEN rows
    ELSE LET r == Head(results)
             updated == [i \in 1..Len(rows) |->
                            IF i = r.entry_id
                            THEN [rows[i] EXCEPT !.text = r.enhanced_text,
                                                 !.embedding = Head(embeddings)]
                            ELSE rows[i]]
         IN  UpdateRows(updated, Tail(results), Tail(embeddings))

\* SimpleOptimizedProcessor.update_database_batch: the table, the cache and
\* the returned count after the call.
update_database_batch(rows, ids, results, dry) ==
    LET successful_results == SelectSeq(results, IsSuccessful)
        texts == [k \in 1..Len(successful_results) |->
                     successful_results[k].enhanced_text]
    IN  IF dry
        THEN [rows |-> rows, ids |-> ids,
              count |-> Len(SelectSeq(results, LAMBDA r : r.success))]
        ELSE IF successful_results = << >>
        THEN [rows |-> rows, ids |-> ids, count |-> 0]
        ELSE [rows |-> UpdateRows(rows, successful_results,
                                  get_embedding_batch(texts)),
              ids |-> ids \cup { successful_results[k].entry_id :
                                   k \in 1..Len(successful_results) },
              count |-> Len(successful_results)]

\* History: the ids of the rows a call of update_database_batch rewrites.
WrittenIds(results, dry) ==
    IF dry THEN {}
    ELSE { results[k].entry_id :
             k \in { j \in 1..Len(results) : IsSuccessful(results[j]) } }

\* History: for each row id, the number of calls of update_database_batch
\* that have rewritten the row, after one more call rewrote `ids`.
CountWrites(writes, ids) ==
    [i \in DOMAIN writes |-> IF i \in ids THEN writes[i] + 1 ELSE writes[i]]

\* History: the ids of the results a call of update_database_batch is given.
HandedIds(results) == { results[k].entry_id : k \in 1..Len(results) }

\* Variant: the batch is kept after the update.
KeepBatch(batch) == batch

\* results_batch = [] after the update of a full batch
AfterWrite(batch) == << >>

\* Variant: the successes are counted instead of the failures.
ErrorCountSuccesses(results) == Len(SelectSeq(results, LAMBDA r : r.success))

\* len([r for r in results_batch if not r.success])
ErrorCount(results) == Len(SelectSeq(results, LAMBDA r : ~r.success))

\* SELECT id, text, timestamp, app, title FROM entries ORDER BY timestamp DESC
RECURSIVE IdsByTimestampDesc(_, _)
IdsByTimestampDesc(rows, ids) ==
    IF ids = {} THEN << >>
    ELSE LET m == CHOOSE i \in ids :
                      \A j \in ids : rows[j].timestamp <= rows[i].timestamp
         IN  << m >> \o IdsByTimestampDesc(rows, ids \ {m})

EntryData(rows, i) ==
    [id |-> i, text |-> rows[i].text, timestamp |-> rows[i].timestamp,
     app |-> rows[i].app, title |-> rows[i].title]

AllEntries(rows) ==
    LET order == IdsByTimestampDesc(rows, 1..Len(rows))
    IN  [k \in 1..Len(rows) |-> EntryData(rows, order[k])]

\* Variant: a filter that looks at the cache only.
IsFilteredByCacheOnly(ids, entry) == is_processed(ids, entry.id)

\* The filter of get_entries_to_process
IsFiltered(ids, entry) ==
    is_processed(ids, entry.id) \/ is_already_refined(entry.text)

\* SimpleOptimizedProcessor.get_entries_to_process: the list returned and
\* the cache after the call.
get_entries_to_process(rows, ids, force) ==
    LET all_entries == AllEntries(rows)
    IN  IF force
        THEN [list |-> all_entries, ids |-> ids]
        ELSE [list |-> SelectSeq(all_entries,
                                 LAMBDA entry : ~IsFiltered(ids, entry)),
              ids |-> ids \cup { all_entries[k].id : k \in
                         { j \in 1..Len(all_entries) :
                             /\ ~is_processed(ids, all_entries[j].id)
                             /\ is_already_refined(all_entries[j].text) } }]

\* Variant: a candidate list that holds every entry twice.
ListTwice(list, lim) == list \o list

\* entries[:limit] under `if limit:`
ApplyLimit(list, lim) ==
    IF lim # NoLimit /\ Len(list) > lim THEN SubSeq(list, 1, lim) ELSE list

(***************************************************************************)
(* Inputs of the model.                                                    *)
(***************************************************************************)
Limits == { NoLimit, 2 }

\* What a caller of insert_entry passes besides the timestamp.
Payloads ==
    { [raw |-> "def main()", emb |-> get_embedding("def main()"),
       app |-> "Editor", title |-> "main.py"],
      [raw |-> "## 42 !!", emb |-> get_embedding("## 42 !!"),
       app |-> "Unknown App", title |-> "Unknown Title"],
      [raw |-> "Activity/Task: code", emb |-> get_embedding("other"),
       app |-> "Browser", title |-> "Tasks"] }

\* A screenshots directory holding one asset under the name without monitor
\* index and one under the name the capture loop writes.
InitialFiles == { FileName(1, NoMon, "webp"), FileName(2, 0, "webp") }

LastRun == runs[Len(runs)]

SetLastRun(field, value) ==
    [runs EXCEPT ![Len(runs)] = [@ EXCEPT ![field] = value]]

(***************************************************************************)
(* Actions of the Storage Layer.                                           *)
(***************************************************************************)
InsertEntry ==
    /\ \E p \in Payloads, timestamp \in 1..MaxTimestamp,
          service \in VisionAnswers :
           insert_entry(p.raw, timestamp, p.emb, p.app, p.title, service)
    /\ UNCHANGED << reprocVars, ctlVars, readVars, loopVars >>

\* text.strip() is empty
IsBlank(text) == \A k \in 1..Len(text) : IsSpace(Char(text, k))

\* name or default
OrDefault(name, default) == IF name = "" THEN default ELSE name

MaxMonitor == 1

\* What a screenshot gives: the OCR text, and the active application and
\* window title at the time
Screens ==
    { [text |-> "def  main() ~", app |-> "Editor", title |-> "main.py"],
      [text |-> "## 42 !!", app |-> "", title |-> ""],
      [text |-> " ", app |-> "Browser", title |-> "Tasks"] }

\* record_screenshots_thread, for one changed screenshot of monitor i: the
\* image is saved, then the text is extracted and, unless blank, inserted.
\* insert_entry runs with the image already in the directory.
ProcessScreenshot(i, timestamp, shot, service) ==
    /\ files' = files \cup { FileName(timestamp, i, "webp") }
    /\ IF ~IsBlank(shot.text)
       THEN \E row \in { InsertRow(files \cup { FileName(timestamp, i, "webp") },
                                   shot.text, timestamp,
                                   get_embedding(shot.text),
                                   OrDefault(shot.app, "Unknown App"),
                                   OrDefault(shot.title, "Unknown Title"),
                                   service) } :
                ExecuteInsert(row)
       ELSE UNCHANGED << entries, insertCall, insertResult >>

CaptureFrame ==
    /\ \E i \in 0..MaxMonitor, timestamp \in 1..MaxTimestamp,
          shot \in Screens, service \in VisionAnswers :
           ProcessScreenshot(i, timestamp, shot, service)
    /\ UNCHANGED << reprocVars, ctlVars, readVars, loopVars >>

(***************************************************************************)
(* Actions of the reprocessing process.  pc: "idle" (no process), "select" *)
(* (before get_entries_to_process), "loop" (in the as_completed loop),     *)
(* "final" (before the final batch), "save" (before the final save_cache), *)
(* "done" (run_processing has returned).                                   *)
(***************************************************************************)
ResetRunState ==
    /\ run_entries' = << >>
    /\ done_ids' = {}
    /\ results_batch' = << >>
    /\ completed' = 0
    /\ total_updated' = 0
    /\ total_errors' = 0

\* main(): a new processor loads the cache file, then run_processing tests
\* the connection to the model server and returns when it fails.
StartRun(dry, lim, force, server_ok) ==
    /\ pc \in {"idle", "done"}
    /\ processed_ids' = load_cache(cacheFile)
    /\ dry_run' = dry
    /\ limit' = lim
    /\ force_reprocess' = force
    /\ ResetRunState
    /\ pc' = IF server_ok THEN "select" ELSE "done"
    /\ runs' = Append(runs, [dry |-> dry, force |-> force, limit |-> lim,
                             file0 |-> cacheFile, cands |-> << >>,
                             selected |-> FALSE, saves |-> 0,
                             failed |-> {}, written |-> {},
                             writes |-> << >>, handed |-> << >>,
                             status |-> IF server_ok THEN "running"
                                        ELSE "returned"])
    /\ UNCHANGED << storeVars, cacheFile, ctlVars, readVars, loopVars >>

\* run_processing: candidate selection, limit, early return when there is
\* nothing to process, submission of every candidate to the pool.
SelectEntries ==
    /\ pc = "select"
    /\ \E sel \in { get_entries_to_process(entries, processed_ids,
                                               force_reprocess) } :
       LET list == ApplyLimit(sel.list, limit)
       IN  /\ processed_ids' = sel.ids
           /\ run_entries' = list
           /\ pc' = IF list = << >> THEN "done" ELSE "loop"
           /\ runs' = [runs EXCEPT ![Len(runs)] =
                         [@ EXCEPT !.cands = [k \in 1..Len(list) |-> list[k].id],
                                   !.writes = [i \in { list[k].id :
                                                         k \in 1..Len(list) }
                                                 |-> 0],
                                   !.handed = [i \in { list[k].id :
                                                         k \in 1..Len(list) }
                                                 |-> 0],
                                   !.selected = TRUE,
                                   !.status = IF list = << >> THEN "returned"
                                              ELSE "running"]]
    /\ UNCHANGED << storeVars, cacheFile, dry_run, limit, force_reprocess,
                    done_ids, results_batch, completed, total_updated,
                    total_errors, ctlVars, readVars, loopVars >>

\* The futures the pool can have finished next: its MAX_WORKERS threads take
\* the submitted tasks in submission order.
Running ==
    LET waiting == { k \in 1..Len(run_entries) : k \notin done_ids }
    IN  { k \in waiting :
            Cardinality({ j \in waiting : j < k }) < MAX_WORKERS }

\* One iteration of the as_completed loop, for the future of run_entries[k].
CompleteEntry(k, raises, vision, llm) ==
    /\ pc = "loop"
    /\ k \in Running
    /\ \E result \in { process_single_entry(run_entries[k], raises, vision,
                                               llm) } :
       \E upd \in { update_database_batch(entries, processed_ids,
                          Append(results_batch, result), dry_run) } :
       LET batch == Append(results_batch, result)
           full == Len(batch) >= BATCH_SIZE
           ids == IF full THEN upd.ids ELSE processed_ids
           checkpoint == (completed + 1) % CHECKPOINT_INTERVAL = 0
       IN  /\ completed' = completed + 1
           /\ done_ids' = done_ids \cup {k}
           /\ entries' = IF full THEN upd.rows ELSE entries
           /\ processed_ids' = ids
           /\ total_updated' = IF full THEN total_updated + upd.count
                               ELSE total_updated
           /\ total_errors' = IF full THEN total_errors + ErrorCount(batch)
                              ELSE total_errors
           /\ results_batch' = IF full THEN AfterWrite(batch) ELSE batch
           /\ cacheFile' = IF checkpoint THEN save_cache(ids) ELSE cacheFile
           /\ runs' = [runs EXCEPT ![Len(runs)] =
                         [@ EXCEPT !.saves = IF checkpoint THEN @ + 1 ELSE @,
                                   !.failed = IF result.success THEN @
                                              ELSE @ \cup {result.entry_id},
                                   !.written = IF full
                                               THEN @ \cup WrittenIds(batch, dry_run)
                                               ELSE @,
                                   !.writes = IF full
                                              THEN CountWrites(@,
                                                       WrittenIds(batch, dry_run))
                                              ELSE @,
                                   !.handed = IF full
                                              THEN CountWrites(@,
                                                       HandedIds(batch))
                                              ELSE @]]
           /\ pc' = IF done_ids' = 1..Len(run_entries) THEN "final" ELSE "loop"
    /\ UNCHANGED << files, insertCall, insertResult, dry_run, limit,
                    force_reprocess,
                    run_entries, ctlVars, readVars, loopVars >>

\* run_processing: "Process final batch"
FinalBatch ==
    /\ pc = "final"
    /\ \E upd \in { update_database_batch(entries, processed_ids,
                                             results_batch, dry_run) } :
       LET rest == results_batch # << >>
       IN  /\ entries' = IF rest THEN upd.rows ELSE entries
           /\ processed_ids' = IF rest THEN upd.ids ELSE processed_ids
           /\ total_updated' = IF rest THEN total_updated + upd.count
                               ELSE total_updated
           /\ total_errors' = IF rest
                              THEN total_errors + ErrorCount(results_batch)
                              ELSE total_errors
           /\ runs' = IF rest
                      THEN [runs EXCEPT ![Len(runs)] =
                              [@ EXCEPT
                                 !.written =
                                     @ \cup WrittenIds(results_batch, dry_run),
                                 !.writes =
                                     CountWrites(@,
                                         WrittenIds(results_batch, dry_run)),
                                 !.handed =
                                     CountWrites(@, HandedIds(results_batch))]]
                      ELSE runs
    /\ pc' = "save"
    /\ UNCHANGED << files, insertCall, insertResult, cacheFile, dry_run, limit,
                    force_reprocess, run_entries, done_ids, results_batch,
                    completed, ctlVars, readVars, loopVars >>

\* run_processing: "Save final cache", then return
FinalSave ==
    /\ pc = "save"
    /\ cacheFile' = save_cache(processed_ids)
    /\ pc' = "done"
    /\ runs' = SetLastRun("status", "finished")
    /\ UNCHANGED << storeVars, dry_run, limit, force_reprocess, processed_ids,
                    run_entries, done_ids, results_batch, completed,
                    total_updated, total_errors, ctlVars, readVars,
                    loopVars >>

\* The process is killed during a run: its memory is lost, the table and
\* the cache file stay as they are.
Kill ==
    /\ pc \in {"select", "loop", "final", "save"}
    /\ pc' = "idle"
    /\ processed_ids' = {}
    /\ dry_run' = FALSE
    /\ limit' = NoLimit
    /\ force_reprocess' = FALSE
    /\ ResetRunState
    /\ runs' = SetLastRun("status", "killed")
    /\ UNCHANGED << storeVars, cacheFile, ctlVars, readVars, loopVars >>

\* The arguments of a run: --dry-run, --limit, --force
AllFlags == [dry : BOOLEAN, limit : Limits, force : BOOLEAN]

\* A run started with the default arguments or with --force
ResumeFlags == [dry : {FALSE}, limit : {NoLimit}, force : BOOLEAN]

StartSome(flags, max_runs) ==
    /\ Len(runs) < max_runs
    /\ \E f \in flags, server_ok \in BOOLEAN :
           StartRun(f.dry, f.limit, f.force, server_ok)

RunStep ==
    \/ SelectEntries
    \/ \E k \in 1..Len(run_entries), raises \in BOOLEAN,
          vision \in VisionAnswers, llm \in LlmAnswers :
           CompleteEntry(k, raises, vision, llm)
    \/ FinalBatch
    \/ FinalSave
    \/ Kill

(***************************************************************************)
(* Recording Controller.  The class is imported by screenshot.py and       *)
(* app.py from openrecall.recording_controller, whose source holds the     *)
(* reprocessor instead; the controller is modelled from section 4.1 of the *)
(* specification.  The state machine of 4.1 has no transition out of       *)
(* Stopped, so pause() and resume() act in Recording and Paused only.      *)
(* set() on the "go" signal releases every thread blocked on it.           *)
(***************************************************************************)
Threads == { "t1", "t2" }

\* The capture thread, which calls wait_if_paused too
CaptureThread == "capture"

\* History of the capture loop since a pause: sets of screenshots taken,
\* frames processed
NothingSincePause == [shots |-> 0, frames |-> 0]

NoCall == [op |-> "none", ret |-> FALSE]

IdleWaiter == [pc |-> "out", timed |-> FALSE, blocked |-> FALSE, ret |-> FALSE]

InitCtl ==
    /\ ctlState = "Recording"
    /\ go = TRUE
    /\ terminal = FALSE
    /\ ctlResult = NoCall
    /\ waiters = [w \in Threads \cup { CaptureThread } |-> IdleWaiter]

\* Every thread blocked on "go" is released.
Released(ws) ==
    [w \in DOMAIN ws |-> IF ws[w].pc = "blocked"
                       THEN [ws[w] EXCEPT !.pc = "released"] ELSE ws[w]]

\* Variant: pause() acts in every state but Paused.
PauseUnlessPaused ==
    /\ IF ctlState # "Paused"
       THEN /\ go' = FALSE
            /\ ctlState' = "Paused"
            /\ ctlResult' = [op |-> "pause", ret |-> TRUE]
            /\ sincePause' = NothingSincePause
       ELSE /\ UNCHANGED << go, ctlState, sincePause >>
            /\ ctlResult' = [op |-> "pause", ret |-> FALSE]
    /\ UNCHANGED << terminal, waiters, storeVars, reprocVars, readVars,
                    loopState >>

\* pause() -> bool
Pause ==
    /\ IF ctlState = "Recording"
       THEN /\ go' = FALSE
            /\ ctlState' = "Paused"
            /\ ctlResult' = [op |-> "pause", ret |-> TRUE]
            /\ sincePause' = NothingSincePause
       ELSE /\ UNCHANGED << go, ctlState, sincePause >>
            /\ ctlResult' = [op |-> "pause", ret |-> FALSE]
    /\ UNCHANGED << terminal, waiters, storeVars, reprocVars, readVars,
                    loopState >>

\* Variants: resume() acts in every state but Recording; resume() marks the
\* state Recording without setting "go".
ResumeUnlessRecording ==
    /\ IF ctlState # "Recording"
       THEN /\ go' = TRUE
            /\ ctlState' = "Recording"
            /\ waiters' = Released(waiters)
            /\ ctlResult' = [op |-> "resume", ret |-> TRUE]
       ELSE /\ UNCHANGED << go, ctlState, waiters >>
            /\ ctlResult' = [op |-> "resume", ret |-> FALSE]
    /\ UNCHANGED << terminal, storeVars, reprocVars, readVars, loopVars >>

ResumeWithoutGo ==
    /\ IF ctlState = "Paused"
       THEN /\ ctlState' = "Recording"
            /\ ctlResult' = [op |-> "resume", ret |-> TRUE]
       ELSE /\ UNCHANGED ctlState
            /\ ctlResult' = [op |-> "resume", ret |-> FALSE]
    /\ UNCHANGED << go, waiters, terminal, storeVars, reprocVars, readVars,
                    loopVars >>

\* resume() -> bool
Resume ==
    /\ IF ctlState = "Paused"
       THEN /\ go' = TRUE
            /\ ctlState' = "Recording"
            /\ waiters' = Released(waiters)
            /\ ctlResult' = [op |-> "resume", ret |-> TRUE]
       ELSE /\ UNCHANGED << go, ctlState, waiters >>
            /\ ctlResult' = [op |-> "resume", ret |-> FALSE]
    /\ UNCHANGED << terminal, storeVars, reprocVars, readVars, loopVars >>

\* Variant: stop() sets the terminal signal without setting "go".
StopWithoutGo ==
    /\ terminal' = TRUE
    /\ ctlState' = "Stopped"
    /\ ctlResult' = [op |-> "stop", ret |-> FALSE]
    /\ UNCHANGED << go, waiters, storeVars, reprocVars, readVars, loopVars >>

\* stop()
Stop ==
    /\ terminal' = TRUE
    /\ go' = TRUE
    /\ ctlState' = "Stopped"
    /\ waiters' = Released(waiters)
    /\ ctlResult' = [op |-> "stop", ret |-> FALSE]
    /\ UNCHANGED << storeVars, reprocVars, readVars, loopVars >>

\* get_state()
get_state ==
    [is_recording |-> ctlState = "Recording", is_paused |-> ctlState = "Paused"]

\* wait_if_paused(timeout), entry: returns false at once when the terminal
\* signal is set, otherwise waits for "go" (timed: a timeout was given).
WaitEnter(w, timed) ==
    /\ waiters[w].pc \in {"out", "returned"}
    /\ waiters' = [waiters EXCEPT ![w] =
           IF terminal
           THEN [pc |-> "returned", timed |-> timed, blocked |-> FALSE,
                 ret |-> FALSE]
           ELSE [pc |-> IF go THEN "released" ELSE "blocked", timed |-> timed,
                 blocked |-> ~go, ret |-> FALSE]]
    /\ UNCHANGED << ctlState, go, terminal, ctlResult, storeVars, reprocVars,
                    readVars, loopVars >>

\* wait_if_paused(timeout): the timeout elapses
WaitTimeout(w) ==
    /\ waiters[w].pc = "blocked"
    /\ waiters[w].timed
    /\ waiters' = [waiters EXCEPT ![w].pc = "released"]
    /\ UNCHANGED << ctlState, go, terminal, ctlResult, storeVars, reprocVars,
                    readVars, loopVars >>

\* wait_if_paused(timeout), return: false when the terminal signal is set,
\* true otherwise
WaitReturn(w) ==
    /\ waiters[w].pc = "released"
    /\ waiters' = [waiters EXCEPT ![w].pc = "returned", ![w].ret = ~terminal]
    /\ UNCHANGED << ctlState, go, terminal, ctlResult, storeVars, reprocVars,
                    readVars, loopVars >>

(***************************************************************************)
(* Reading the store: database.get_all_entries and the /search handler of  *)
(* app.py.  An ndarray, like a blob, is a number of items of a byte width. *)
(* PAGE_SIZE is the program's page_size (10) scaled down.                  *)
(***************************************************************************)
PAGE_SIZE == 2
MaxPage == 3
NumStored == 3

FLOAT32 == 4
FLOAT64 == 8

ByteLen(buffer) == buffer.n * buffer.width

\* np.frombuffer(buffer, dtype) raises ValueError unless the buffer size is
\* a multiple of the element size
CanRead(buffer, itemsize) == ByteLen(buffer) % itemsize = 0

\* np.frombuffer(buffer, dtype)
frombuffer(buffer, itemsize) ==
    [n |-> ByteLen(buffer) \div itemsize, width |-> itemsize, of |-> buffer.of]

\* The Entry built from a row by get_all_entries
ReadEntry(rows, i) ==
    [id |-> i, app |-> rows[i].app, title |-> rows[i].title,
     text |-> rows[i].text, timestamp |-> rows[i].timestamp,
     embedding |-> frombuffer(rows[i].embedding, FLOAT32)]

\* database.get_all_entries: the ValueError of np.frombuffer is not a
\* sqlite3.Error and leaves the function.
get_all_entries(rows) ==
    LET order == IdsByTimestampDesc(rows, 1..Len(rows))
    IN  IF \E i \in 1..Len(rows) : ~CanRead(rows[i].embedding, FLOAT32)
        THEN [raised |-> TRUE, entries |-> << >>]
        ELSE [raised |-> FALSE,
              entries |-> [k \in 1..Len(rows) |-> ReadEntry(rows, order[k])]]

\* search: the filter on the embedding dimension
IsValidEntry(entry, query_embedding) ==
    /\ CanRead(entry.embedding, FLOAT64)
    /\ frombuffer(entry.embedding, FLOAT64).n = query_embedding.n

\* A sort key that is the timestamp alone
KeyLessByTimestamp(a, b) == a.entry.timestamp < b.entry.timestamp

\* The sort key (similarity, timestamp) of a scored entry
KeyLess(a, b) ==
    \/ a.sim < b.sim
    \/ a.sim = b.sim /\ a.entry.timestamp < b.entry.timestamp

\* scored_entries.sort(key=lambda x: (x[1], x[0].timestamp), reverse=True)
RECURSIVE SortReverse(_)
SortReverse(scored) ==
    IF scored = << >> THEN << >>
    ELSE LET m == CHOOSE i \in 1..Len(scored) :
                      /\ \A j \in 1..Len(scored) : ~KeyLess(scored[i], scored[j])
                      /\ \A j \in 1..(i - 1) : KeyLess(scored[j], scored[i])
             rest == [k \in 1..(Len(scored) - 1) |->
                         IF k < m THEN scored[k] ELSE scored[k + 1]]
         IN  << scored[m] >> \o SortReverse(rest)

\* An index of a Python slice brought into 0..len
SliceIndex(i, len) ==
    IF i < 0 THEN (IF len + i < 0 THEN 0 ELSE len + i)
    ELSE IF i > len THEN len ELSE i

\* A slice that takes the element at `end` too
SliceInclusive(list, start, end) ==
    SubSeq(list, SliceIndex(start, Len(list)) + 1,
                 SliceIndex(end + 1, Len(list)))

\* list[start:end]
Slice(list, start, end) ==
    SubSeq(list, SliceIndex(start, Len(list)) + 1, SliceIndex(end, Len(list)))

\* app.search for a non-empty q: `sim` is what cosine_similarity gives for
\* each entry, embed_ok whether get_embedding(q) returns.  `ranked` is the
\* handler's sorted_entries, `entries` its paged_entries.
search(rows, q, page, sim, embed_ok) ==
    LET all == get_all_entries(rows)
        query_embedding == get_embedding(q)
        valid_entries == SelectSeq(all.entries,
                             LAMBDA e : IsValidEntry(e, query_embedding))
        scored_entries == [k \in 1..Len(valid_entries) |->
                              [entry |-> valid_entries[k],
                               sim |-> sim[valid_entries[k].id]]]
        sorted_entries == [k \in 1..Len(scored_entries) |->
                              SortReverse(scored_entries)[k].entry]
        start == (page - 1) * PAGE_SIZE
        end == start + PAGE_SIZE
    IN  IF all.raised THEN [kind |-> "raised"]
        ELSE IF ~embed_ok THEN [kind |-> "embedding_error"]
        ELSE IF valid_entries = << >> THEN [kind |-> "no_matches"]
        ELSE [kind |-> "results",
              ranked |-> sorted_entries,
              entries |-> Slice(sorted_entries, start, end),
              total_pages |-> (Len(sorted_entries) + PAGE_SIZE - 1)
                                  \div PAGE_SIZE]

NoRead == [op |-> "none"]

InitRead ==
    /\ readCall = NoRead
    /\ readResult = NoRead

\* A call of get_all_entries
GetAllEntries ==
    /\ readCall' = [op |-> "get_all_entries"]
    /\ readResult' = get_all_entries(entries)
    /\ UNCHANGED << storeVars, reprocVars, ctlVars, loopVars >>

SimLevels == { 5, 9 }
Queries == { "main" }

\* A GET /search?q=...&page=...
Search ==
    /\ \E q \in Queries, page \in 0..MaxPage, embed_ok \in BOOLEAN,
          sim \in [1..Len(entries) -> SimLevels] :
           /\ readCall' = [op |-> "search", q |-> q, page |-> page, sim |-> sim]
           /\ readResult' = search(entries, q, page, sim, embed_ok)
    /\ UNCHANGED << storeVars, reprocVars, ctlVars, loopVars >>

\* The blobs a stored row can hold: EmbDim float32 values (insert_entry and
\* the reprocessor), EmbDim float64 values (rebuild_embeddings.py), float32
\* vectors of other dimensions, no bytes, and bytes that are no whole
\* number of float32 values.
StoredBlobs ==
    { ToBytes(get_embedding("def main()"), FLOAT32),
      ToBytes(get_embedding("def main()"), FLOAT64),
      [n |-> 2 * EmbDim, width |-> FLOAT32, of |-> "def main()"],
      [n |-> EmbDim + 1, width |-> FLOAT32, of |-> "def main()"],
      [n |-> 0, width |-> FLOAT32, of |-> ""],
      [n |-> 3, width |-> 1, of |-> "def main()"] }

\* The timestamp of the row with id i: not in the order of the ids
StoredTimestamp(i) == IF i = NumStored THEN 1 ELSE i + 1

(***************************************************************************)
(* The capture thread: screenshot.record_screenshots_thread.  A frame is a *)
(* uniform image, named by the gray value rgb2gray gives each of its       *)
(* pixels.  loopPc: "top" (line 83), "wait" (in wait_if_paused, line 85),  *)
(* "record" (line 92), "active" (line 98), "shoot" (line 105), "frame"     *)
(* (line 114, mon is i), "process" (line 120), "exited" (line 152).        *)
(* The sleeps take no step of their own; an exception in a cycle is not    *)
(* modelled.                                                               *)
(***************************************************************************)
Frames == { 100, 150, 225 }

\* mean_structured_similarity_index(img1, img2) of two uniform images, as
\* a fraction: the variances and the covariance are 0, C1 = (0.01 * 255)^2
\* = 2601/400, and the factor with C2 is 1.
mean_structured_similarity_index(img1, img2) ==
    [num |-> 800 * img1 * img2 + 2601,
     den |-> 400 * (img1 * img1 + img2 * img2) + 2601]

\* Variant: only equal frames are similar.
IsSame(img1, img2) == img1 = img2

\* is_similar(img1, img2, similarity_threshold = 0.9)
is_similar(img1, img2) ==
    LET similarity == mean_structured_similarity_index(img1, img2)
    IN  10 * similarity.num >= 9 * similarity.den

\* What the screen shows with a frame: the text OCR finds in it, and the
\* active application and window title
ScreenAt(frame) ==
    CASE frame = 100 -> [text |-> "def  main() ~", app |-> "Editor",
                         title |-> "main.py"]
      [] frame = 150 -> [text |-> "## 42 !!", app |-> "", title |-> ""]
      [] OTHER -> [text |-> " ", app |-> "Browser", title |-> "Tasks"]

\* take_screenshots(): one frame for each monitor
ScreenshotLists ==
    UNION { [1..n -> Frames] : n \in 1..(MaxMonitor + 1) }

\* recording_controller.is_paused and recording_controller.should_record()
is_paused == ctlState = "Paused"

should_record == ctlState = "Recording"

\* last_screenshots = None; otherwise the list is in the field frames
NoScreenshots == [set |-> FALSE, frames |-> << >>]

Retained(frames) == [set |-> TRUE, frames |-> frames]

InitLoop ==
    /\ loopPc = "top"
    /\ last_screenshots = NoScreenshots
    /\ screenshots = << >>
    /\ mon = 0
    /\ now = 1
    /\ cycleStamps = {}
    /\ sincePause = NothingSincePause

\* The history counts what the loop does while the controller is Paused.
CountSincePause(field) ==
    IF is_paused
    THEN [sincePause EXCEPT ![field] = IF @ < 2 THEN @ + 1 ELSE @]
    ELSE sincePause

\* time.time() advances
Tick ==
    /\ now < MaxTimestamp
    /\ now' = now + 1
    /\ UNCHANGED << loopPc, last_screenshots, screenshots, mon, cycleStamps,
                    sincePause, storeVars, reprocVars, ctlVars, readVars >>

\* if recording_controller.is_paused:
LoopTop ==
    /\ loopPc = "top"
    /\ loopPc' = IF is_paused THEN "wait" ELSE "record"
    /\ UNCHANGED << last_screenshots, screenshots, mon, now, cycleStamps,
                    sincePause, storeVars, reprocVars, ctlVars, readVars >>

\* recording_controller.wait_if_paused(): the call
LoopWaitEnter ==
    /\ loopPc = "wait"
    /\ waiters[CaptureThread].pc = "out"
    /\ WaitEnter(CaptureThread, FALSE)

\* if not recording_controller.wait_if_paused(): break, else: continue
LoopAfterWait ==
    /\ loopPc = "wait"
    /\ waiters[CaptureThread].pc = "returned"
    /\ loopPc' = IF waiters[CaptureThread].ret THEN "top" ELSE "exited"
    /\ waiters' = [waiters EXCEPT ![CaptureThread] = IdleWaiter]
    /\ UNCHANGED << last_screenshots, screenshots, mon, now, cycleStamps,
                    sincePause, ctlState, go, terminal, ctlResult, storeVars,
                    reprocVars, readVars >>

\* if not recording_controller.should_record(): sleep, continue
LoopRecord ==
    /\ loopPc = "record"
    /\ loopPc' = IF should_record THEN "active" ELSE "top"
    /\ UNCHANGED << last_screenshots, screenshots, mon, now, cycleStamps,
                    sincePause, storeVars, reprocVars, ctlVars, readVars >>

\* if not is_user_active(): sleep, continue
LoopActive ==
    /\ loopPc = "active"
    /\ \E active \in BOOLEAN : loopPc' = IF active THEN "shoot" ELSE "top"
    /\ UNCHANGED << last_screenshots, screenshots, mon, now, cycleStamps,
                    sincePause, storeVars, reprocVars, ctlVars, readVars >>

\* Variant: only "last_screenshots is None"
IsUnset(last, shots) == ~last.set

\* last_screenshots is None or len(last_screenshots) != len(screenshots)
NeedsBaseline(last, shots) ==
    \/ ~last.set
    \/ Len(last.frames) # Len(shots)

\* screenshots = take_screenshots(), and the re-baselining; lists: what
\* take_screenshots() can return
LoopShootFrom(lists) ==
    /\ loopPc = "shoot"
    /\ \E shots \in lists :
           /\ screenshots' = shots
           /\ IF NeedsBaseline(last_screenshots, shots)
              THEN /\ last_screenshots' = Retained(shots)
                   /\ loopPc' = "top"
                   /\ UNCHANGED mon
              ELSE /\ mon' = 0
                   /\ loopPc' = "frame"
                   /\ UNCHANGED last_screenshots
    /\ cycleStamps' = {}
    /\ sincePause' = CountSincePause("shots")
    /\ UNCHANGED << now, storeVars, reprocVars, ctlVars, readVars >>

\* Variant: the for loop without "if is_paused: break"
LoopFrameUnchecked ==
    /\ loopPc = "frame"
    /\ loopPc' = IF mon < Len(screenshots) THEN "process" ELSE "top"
    /\ UNCHANGED << last_screenshots, screenshots, mon, now, cycleStamps,
                    sincePause, storeVars, reprocVars, ctlVars, readVars >>

\* for i, screenshot in enumerate(screenshots): if is_paused: break
LoopFrame ==
    /\ loopPc = "frame"
    /\ loopPc' = IF mon < Len(screenshots) /\ ~is_paused
                 THEN "process" ELSE "top"
    /\ UNCHANGED << last_screenshots, screenshots, mon, now, cycleStamps,
                    sincePause, storeVars, reprocVars, ctlVars, readVars >>

\* The body of the for loop for frame i = mon: a frame that is not similar
\* to the retained one replaces it, is saved, and its text is inserted.
LoopProcess ==
    /\ loopPc = "process"
    /\ IF mon < Len(last_screenshots.frames)
          /\ ~is_similar(screenshots[mon + 1],
                         last_screenshots.frames[mon + 1])
       THEN /\ last_screenshots' =
                   [last_screenshots EXCEPT
                        !.frames[mon + 1] = screenshots[mon + 1]]
            /\ \E service \in VisionAnswers :
                   ProcessScreenshot(mon, now, ScreenAt(screenshots[mon + 1]),
                                     service)
            /\ cycleStamps' = IF entries' # entries
                              THEN cycleStamps \cup { now } ELSE cycleStamps
       ELSE UNCHANGED << last_screenshots, storeVars, cycleStamps >>
    /\ mon' = mon + 1
    /\ loopPc' = "frame"
    /\ sincePause' = CountSincePause("frames")
    /\ UNCHANGED << screenshots, now, reprocVars, ctlVars, readVars >>

LoopShoot == LoopShootFrom(ScreenshotLists)

\* A step of the capture thread that reads the controller, the user's
\* activity or the loop index
LoopCheck ==
    \/ LoopTop
    \/ LoopWaitEnter
    \/ WaitReturn(CaptureThread)
    \/ LoopAfterWait
    \/ LoopRecord
    \/ LoopActive
    \/ LoopFrame

\* A step of the capture thread other than take_screenshots()
LoopControl == LoopCheck \/ LoopProcess

\* A step of the capture thread
LoopStep == LoopControl \/ LoopShoot

\* One monitor showing one of two screens
OneMonitorLists == { << 100 >>, << 225 >> }

(***************************************************************************)
(* Specifications.                                                         *)
(***************************************************************************)
InitReproc ==
    /\ cacheFile = NoFile
    /\ pc = "idle"
    /\ dry_run = FALSE
    /\ limit = NoLimit
    /\ force_reprocess = FALSE
    /\ processed_ids = {}
    /\ run_entries = << >>
    /\ done_ids = {}
    /\ results_batch = << >>
    /\ completed = 0
    /\ total_updated = 0
    /\ total_errors = 0
    /\ runs = << >>

\* The state after create_db() on a new database.
Init ==
    /\ entries = << >>
    /\ files = InitialFiles
    /\ insertCall = << >>
    /\ insertResult = NoRow
    /\ InitReproc
    /\ InitCtl
    /\ InitRead
    /\ InitLoop

\* Live capture inserting while at most MaxLiveRuns reprocessing runs happen.
Next == InsertEntry \/ StartSome(ResumeFlags, MaxLiveRuns) \/ RunStep

Spec == Init /\ [][Next]_vars

\* The capture loop and other callers of insert_entry.
NextCapture == CaptureFrame \/ InsertEntry

SpecCapture == Init /\ [][NextCapture]_vars

\* The OCR texts given to the cleaners: up to three pieces, one after the
\* other, the last one possibly a word of 26 letters, and the example of
\* the specification.
Pieces ==
    { "", "ab ", "abcdefghi ", "abcdefghij ", "aaaa", "1a ", "12345678901 ",
      "!! ", "#", "__", "x\t" }

OcrTexts ==
    { a \o b \o c : a, b \in Pieces,
                     c \in Pieces \cup { "abcdefghijklmnopqrstuvwxyz" } }
        \cup { "aaaa!!1111111111111 ok go" }

\* A call of database.clean_ocr_text (live capture)
CleanLive ==
    /\ readCall' = [op |-> "clean_ocr_text", raw_text |-> readCall.raw_text,
                    limit |-> LIVE_TEXT_LIMIT]
    /\ readResult' = [text |-> clean_ocr_text(readCall.raw_text)]
    /\ UNCHANGED << storeVars, reprocVars, ctlVars, loopVars >>

\* A call of SimpleOptimizedProcessor.clean_ocr_text (bulk reprocessing)
CleanBulk ==
    /\ readCall' = [op |-> "clean_ocr_text", raw_text |-> readCall.raw_text,
                    limit |-> BULK_TEXT_LIMIT]
    /\ readResult' = [text |-> bulk_clean_ocr_text(readCall.raw_text)]
    /\ UNCHANGED << storeVars, reprocVars, ctlVars, loopVars >>

InitClean ==
    /\ entries = << >>
    /\ files = InitialFiles
    /\ insertCall = << >>
    /\ insertResult = NoRow
    /\ InitReproc
    /\ InitCtl
    /\ \E raw_text \in OcrTexts :
           readCall = [op |-> "none", raw_text |-> raw_text, limit |-> 0]
    /\ readResult = NoRead
    /\ InitLoop

NextClean == CleanLive \/ CleanBulk

\* The two cleaners applied to an OCR text.
SpecClean == InitClean /\ [][NextClean]_vars

\* A table of NumEntries rows as insert_entry leaves them: row i has
\* timestamp i and the text texts[i].
StoredRow(i, text) ==
    [app |-> "Editor", title |-> "main.py", text |-> text, timestamp |-> i,
     embedding |-> ToBytes(get_embedding(IF text = "" THEN "## 42 !!" ELSE text), 4)]

StoreTexts ==
    { [i \in 1..NumEntries |-> "def main()"],
      [i \in 1..NumEntries |->
          IF i = 1 THEN "Activity/Task: code"
          ELSE IF i = 2 THEN "" ELSE "def main()"] }

InitStore ==
    /\ \E texts \in StoreTexts :
           entries = [i \in 1..NumEntries |-> StoredRow(i, texts[i])]
    /\ files = InitialFiles
    /\ insertCall = << >>
    /\ insertResult = NoRow
    /\ InitReproc
    /\ InitCtl
    /\ InitRead
    /\ InitLoop

\* One reprocessing run over a stored table.
NextReproc == StartSome(AllFlags, MaxLiveRuns) \/ RunStep

SpecReproc == InitStore /\ [][NextReproc]_vars

\* A run, possibly killed, followed by further runs on the same cache file.
NextResume == StartSome(ResumeFlags, MaxRuns) \/ RunStep

SpecResume == InitStore /\ [][NextResume]_vars

\* Requests reading a table whose rows hold any of the blobs.
InitSearch ==
    /\ \E blobs \in [1..NumStored -> StoredBlobs] :
           entries = [i \in 1..NumStored |->
                         [app |-> "Editor", title |-> "main.py",
                          text |-> "def main()",
                          timestamp |-> StoredTimestamp(i),
                          embedding |-> blobs[i]]]
    /\ files = InitialFiles
    /\ insertCall = << >>
    /\ insertResult = NoRow
    /\ InitReproc
    /\ InitCtl
    /\ InitRead
    /\ InitLoop

NextSearch == GetAllEntries \/ Search

SpecSearch == InitSearch /\ [][NextSearch]_vars

\* The controller called by any number of threads.
NextCtl ==
    \/ Pause
    \/ Resume
    \/ Stop
    \/ \E w \in Threads, timed \in BOOLEAN : WaitEnter(w, timed)
    \/ \E w \in Threads : WaitTimeout(w)
    \/ \E w \in Threads : WaitReturn(w)

SpecCtl == Init /\ [][NextCtl]_vars

\* A thread released from its wait is scheduled and returns.
SpecCtlFair == SpecCtl /\ \A w \in Threads : WF_vars(WaitReturn(w))

\* The capture thread under the controller, within one second.
NextLoop == LoopStep \/ Pause \/ Resume \/ Stop

SpecLoop == Init /\ [][NextLoop]_vars

\* The capture thread of a machine with one monitor, scheduled whenever it
\* can take a step.
LoopStepOneMonitor == LoopControl \/ LoopShootFrom(OneMonitorLists)

NextLoopOneMonitor == LoopStepOneMonitor \/ Pause \/ Resume \/ Stop

\* At "process" the thread can always take its step, so that its being
\* scheduled there is its not staying there.
SpecLoopFair ==
    /\ Init
    /\ [][NextLoopOneMonitor]_vars
    /\ WF_vars(LoopCheck \/ LoopShootFrom(OneMonitorLists))
    /\ []<>(loopPc # "process")

\* The capture thread while recording, with the clock.
NextLoopClock ==
    \/ LoopTop
    \/ LoopRecord
    \/ LoopActive
    \/ LoopShoot
    \/ LoopFrame
    \/ LoopProcess
    \/ Tick

SpecLoopClock == Init /\ [][NextLoopClock]_vars

(***************************************************************************)
(* Properties.                                                             *)
(***************************************************************************)
IdsOf(list) == { list[k] : k \in 1..Len(list) }

\* A step of the store alone: an insert_entry call.
InsertStep == UNCHANGED << reprocVars, ctlVars, readVars, loopVars >>

\* C1: the first insert_entry call with a timestamp t the store does not hold
\* adds exactly one row, with timestamp t, and returns its row id; a call
\* with a timestamp the store holds, whatever else it carries, leaves the
\* rows as they are and returns None.
InsertIsIdempotent ==
    [][InsertStep =>
         \E t \in 1..MaxTimestamp :
             /\ insertCall' = << t >>
             /\ IF t \in Timestamps(entries)
                THEN entries' = entries /\ insertResult' = NoRow
                ELSE /\ Len(entries') = Len(entries) + 1
                     /\ SubSeq(entries', 1, Len(entries)) = entries
                     /\ entries'[Len(entries')].timestamp = t
                     /\ insertResult' = RowId(Len(entries'))]_vars

\* Both timestamps are stored and the last call, with a stored timestamp,
\* returned None.
InsertedTwice ==
    /\ Len(entries) = MaxEntries
    /\ insertCall # << >>
    /\ insertCall[1] \in Timestamps(entries)
    /\ insertResult = NoRow

\* C2: in every reachable state, whatever insert_entry calls and batch
\* updates of the reprocessor led to it, no two rows have the same timestamp.
UniqueTimestamps ==
    \A i, j \in 1..Len(entries) :
        i # j => entries[i].timestamp # entries[j].timestamp

\* Two rows, a batch update has rewritten one of them, and an insert_entry
\* call with a stored timestamp has been made after it.
UpdatedThenInsertedAgain ==
    /\ Len(entries) = 2
    /\ \E i \in 1..Len(entries) : entries[i].text = "The user is working"
    /\ Len(runs) > 0 /\ LastRun.written # {}
    /\ insertCall # << >> /\ insertResult = NoRow

\* A thread enters wait_if_paused in this step.
EntersWait(w) ==
    /\ waiters[w].pc \in {"out", "returned"}
    /\ waiters'[w] # waiters[w]

\* C3: once pause() has taken effect a thread that calls wait_if_paused
\* blocks; called with no timeout it stays blocked in every step that is
\* not a resume() or a stop(); resume() releases it, and it then returns
\* true (false only if stop() has been called before it returns).
BlocksUntilResumed ==
    /\ [][\A w \in Threads :
            /\ EntersWait(w) /\ ctlState = "Paused"
                   => waiters'[w].pc = "blocked"
            /\ (/\ waiters[w].pc = "blocked"
                /\ ~waiters[w].timed
                /\ waiters'[w].pc # "blocked")
                   => ctlState = "Paused" /\ ctlState' \in {"Recording", "Stopped"}
            /\ (/\ waiters[w].pc = "blocked"
                /\ ctlState = "Paused"
                /\ ctlState' = "Recording")
                   => waiters'[w].pc = "released"]_vars
    /\ \A w \in Threads :
           (waiters[w].pc = "released" /\ waiters[w].blocked)
               ~> (waiters[w].pc = "returned" /\ (waiters[w].ret \/ terminal))

\* A call with no timeout that blocked has returned true after a resume().
ResumedWaiterReturnedTrue ==
    /\ ctlState = "Recording"
    /\ ctlResult = [op |-> "resume", ret |-> TRUE]
    /\ \E w \in Threads :
           /\ waiters[w].pc = "returned"
           /\ waiters[w].blocked
           /\ ~waiters[w].timed
           /\ waiters[w].ret

\* C4: after stop() no thread is blocked in wait_if_paused, every call that
\* returns returns false, and every thread released by stop() does return,
\* whether the controller was Recording or Paused.
StopReleasesEveryWaiter ==
    /\ [](terminal => \A w \in Threads : waiters[w].pc # "blocked")
    /\ [][\A w \in Threads :
            (/\ terminal'
             /\ waiters'[w] # waiters[w]
             /\ waiters'[w].pc = "returned")
                => ~waiters'[w].ret]_vars
    /\ \A w \in Threads :
           (terminal /\ waiters[w].pc = "released")
               ~> (waiters[w].pc = "returned" /\ ~waiters[w].ret)

\* After stop() one thread that was blocked while Paused and one thread that
\* did not block have both returned false.
StoppedWaitersReturnedFalse ==
    /\ terminal
    /\ \E w, v \in Threads :
           /\ w # v
           /\ waiters[w].pc = "returned" /\ waiters[w].blocked /\ ~waiters[w].ret
           /\ waiters[v].pc = "returned" /\ ~waiters[v].blocked
           /\ ~waiters[v].ret

Resumed ==
    /\ Len(runs) = 2
    /\ runs[1].status = "killed"
    /\ runs[1].saves > 0
    /\ runs[2].selected

Checkpointed == load_cache(runs[2].file0)

\* C7 as stated: the second run processes only candidates that are not in
\* the checkpointed cache, and the first run's candidates in the checkpointed
\* cache and the second run's candidates add up to the first run's candidates.
ResumeProcessesTheRest ==
    Resumed =>
        LET first == IdsOf(runs[1].cands)
            second == IdsOf(runs[2].cands)
        IN  /\ second \subseteq first \ Checkpointed
            /\ Cardinality(first \cap Checkpointed) + Cardinality(second)
                   = Cardinality(first)

\* C7: when neither run is forced or limited, the second run processes only
\* candidates of the first run that are not in the checkpointed cache; it
\* leaves out such a candidate only if the first run rewrote its row after
\* the last checkpoint; so the two counts add up to at most the first run's
\* candidates, and to exactly that number when the first run wrote no batch
\* after its last checkpoint.
ResumeWithoutForce ==
    (Resumed /\ ~runs[1].force /\ ~runs[2].force
             /\ runs[1].limit = NoLimit /\ runs[2].limit = NoLimit) =>
        LET first == IdsOf(runs[1].cands)
            second == IdsOf(runs[2].cands)
            counted == Cardinality(first \cap Checkpointed) + Cardinality(second)
        IN  /\ second \subseteq first \ Checkpointed
            /\ (first \ Checkpointed) \ second \subseteq runs[1].written
            /\ counted <= Cardinality(first)
            /\ runs[1].written \subseteq Checkpointed
                   => counted = Cardinality(first)

\* An unforced second run has finished after processing what an unforced
\* first run left: some candidates were checkpointed, one was left out.
ResumedAndFinished ==
    /\ Resumed /\ ~runs[1].force /\ ~runs[2].force
    /\ runs[2].status = "finished"
    /\ IdsOf(runs[2].cands) # {}
    /\ IdsOf(runs[1].cands) \cap Checkpointed # {}
    /\ Cardinality(IdsOf(runs[1].cands) \cap Checkpointed)
           + Cardinality(IdsOf(runs[2].cands)) < Cardinality(IdsOf(runs[1].cands))

\* C8: from candidate selection to its end a run with dry_run set changes
\* neither the table nor the ProcessingCache, in memory or in its file.
DryRunChangesNothing ==
    [][(/\ dry_run
        /\ pc \in {"select", "loop", "final", "save"}
        /\ pc' \in {"loop", "final", "save", "done"})
           => /\ entries' = entries
              /\ processed_ids' = processed_ids
              /\ load_cache(cacheFile') = load_cache(cacheFile)]_vars

\* The results of the current run that failed and are not yet counted.
PendingFailures ==
    Cardinality({ k \in 1..Len(results_batch) : ~results_batch[k].success })

\* C9: every entry whose processing fails yields a failed result that is
\* counted once in total_errors, the loop goes on with the other entries,
\* and at the end of the run every submitted entry has been completed.
FailureIsCountedOnce ==
    (Len(runs) > 0 /\ LastRun.selected
                   /\ LastRun.status \in {"running", "finished"}) =>
        /\ LastRun.failed \subseteq
               { run_entries[k].id : k \in done_ids }
        /\ pc = "loop" =>
               /\ Running # {}
               /\ total_errors + PendingFailures = Cardinality(LastRun.failed)
        /\ pc = "final" =>
               total_errors + PendingFailures = Cardinality(LastRun.failed)
        /\ pc \in {"save", "done"} =>
               /\ total_errors = Cardinality(LastRun.failed)
               /\ completed = Len(run_entries)
               /\ done_ids = 1..Len(run_entries)

\* A run has ended in which one entry failed and another was rewritten.
RunEndedWithOneFailure ==
    /\ pc = "done"
    /\ Len(runs) > 0
    /\ LastRun.status = "finished"
    /\ Cardinality(LastRun.failed) = 1
    /\ total_errors = 1
    /\ LastRun.written # {}

\* C10: without force the candidates are exactly the entries whose id is
\* not in the ProcessingCache and whose text does not match the
\* already-refined heuristic; with force they are all the stored entries.
CandidatesAreSelected ==
    [][(pc = "select" /\ pc' \in {"loop", "done"} /\ limit = NoLimit) =>
          { run_entries'[k].id : k \in 1..Len(run_entries') }
              = IF force_reprocess
                THEN 1..Len(entries)
                ELSE { i \in 1..Len(entries) :
                         /\ i \notin processed_ids
                         /\ ~is_already_refined(entries[i].text) }]_vars

\* An unforced run has selected one entry and left out one that is in the
\* cache with a text that does not look refined, and one that is not in the
\* cache with a text that looks refined.
SelectedByCacheAndText ==
    /\ pc = "loop"
    /\ ~force_reprocess
    /\ run_entries # << >>
    /\ \E i, j \in 1..Len(entries) :
           /\ i \in load_cache(LastRun.file0)
           /\ ~is_already_refined(entries[i].text)
           /\ j \notin load_cache(LastRun.file0)
           /\ is_already_refined(entries[j].text)
           /\ \A k \in 1..Len(run_entries) : run_entries[k].id \notin {i, j}
\* The ids of the results in the batch that the step writes: the buffered
\* results and the result of the future completed in the step.
BatchIds ==
    { results_batch[k].entry_id : k \in 1..Len(results_batch) }
        \cup { run_entries[k].id : k \in done_ids' \ done_ids }

\* C11: a batch update of the reprocessor changes only the text and the
\* embedding of rows whose ids are in the batch; it leaves their timestamp,
\* id, app and title, leaves every other row, and adds or removes no row.
BatchUpdateFrame ==
    [][(pc \in {"loop", "final"} /\ reprocVars' # reprocVars) =>
          /\ Len(entries') = Len(entries)
          /\ \A i \in 1..Len(entries) :
                 /\ entries'[i].timestamp = entries[i].timestamp
                 /\ entries'[i].app = entries[i].app
                 /\ entries'[i].title = entries[i].title
                 /\ entries'[i] # entries[i] => i \in BatchIds]_vars

\* A run has rewritten some rows and left another one as it was stored.
SomeRowsRewritten ==
    /\ pc = "done"
    /\ Len(runs) > 0
    /\ LastRun.written # {}
    /\ \E i \in 1..Len(entries) :
           /\ i \notin LastRun.written
           /\ entries[i] = StoredRow(i, "def main()")
    /\ \E i \in LastRun.written : entries[i].text = "The user is working"

\* The ids of the entries a search kept for ranking
KeptIds ==
    IF readResult.kind = "results"
    THEN { readResult.ranked[k].id : k \in 1..Len(readResult.ranked) }
    ELSE {}

\* A search that went through its filter
Filtered ==
    /\ readCall.op = "search"
    /\ readResult.kind \in { "results", "no_matches" }

\* C12: a search keeps an entry for ranking exactly when the number of
\* values of its stored embedding equals the number of values of the query
\* embedding, and answers with the no-matches result when it keeps none.
\* The code does not do this: it keeps an entry when the stored bytes, read
\* as float64, have the query's length.
KeepsEqualLengths ==
    Filtered =>
        /\ \A i \in 1..Len(entries) :
               i \in KeptIds <=>
                   entries[i].embedding.n = get_embedding(readCall.q).n
        /\ KeptIds = {} <=> readResult.kind = "no_matches"

\* The similarity the request gave to the k-th ranked entry
RankedSim(k) == readCall.sim[readResult.ranked[k].id]

\* C13: the ranked list of a search is ordered by similarity descending,
\* and entries of equal similarity by timestamp descending.
RankedBySimilarityThenRecency ==
    (readCall.op = "search" /\ readResult.kind = "results") =>
        \A a, b \in 1..Len(readResult.ranked) :
            a < b =>
                \/ RankedSim(a) > RankedSim(b)
                \/ /\ RankedSim(a) = RankedSim(b)
                   /\ readResult.ranked[a].timestamp
                          >= readResult.ranked[b].timestamp

\* Three results with similarities 9, 9, 5 and timestamps 2, 3, 1 come out in
\* the order of timestamps 3, 2, 1.
TieBrokenByRecency ==
    /\ readCall.op = "search"
    /\ readResult.kind = "results"
    /\ readCall.sim = << 9, 9, 5 >>
    /\ [k \in 1..Len(readResult.ranked) |-> readResult.ranked[k].timestamp]
           = << 3, 2, 1 >>

\* The pages p..last of the search of the last request, one after the other
RECURSIVE PagesFrom(_, _)
PagesFrom(p, last) ==
    IF p > last THEN << >>
    ELSE search(entries, readCall.q, p, readCall.sim, TRUE).entries
             \o PagesFrom(p + 1, last)

\* C14: page p >= 1 of a search holds the ranked results at the positions
\* (p-1)*PAGE_SIZE+1 .. p*PAGE_SIZE, total_pages is the ceiling of the number
\* of results over PAGE_SIZE, and the pages 1..total_pages in order are the
\* ranked list.
PagesPartitionRanking ==
    (readCall.op = "search" /\ readResult.kind = "results"
        /\ readCall.page >= 1) =>
        LET n == Len(readResult.ranked)
            first == (readCall.page - 1) * PAGE_SIZE + 1
            last == IF readCall.page * PAGE_SIZE < n
                    THEN readCall.page * PAGE_SIZE ELSE n
        IN  /\ readResult.entries = SubSeq(readResult.ranked, first, last)
            /\ readResult.total_pages * PAGE_SIZE >= n
            /\ (readResult.total_pages - 1) * PAGE_SIZE < n
            /\ PagesFrom(1, readResult.total_pages) = readResult.ranked

\* The second and last page of three results holds the third result alone.
LastPageIsShort ==
    /\ readCall.op = "search"
    /\ readResult.kind = "results"
    /\ readCall.page = 2
    /\ Len(readResult.ranked) = PAGE_SIZE + 1
    /\ readResult.total_pages = 2
    /\ readResult.entries = << readResult.ranked[PAGE_SIZE + 1] >>

\* The rows whose embedding bytes are whole float32 values, at least one
SoundIds ==
    { i \in 1..Len(entries) :
        /\ CanRead(entries[i].embedding, FLOAT32)
        /\ ByteLen(entries[i].embedding) > 0 }

\* C15: get_all_entries returns the entries by timestamp descending, and
\* with a row of corrupt embedding bytes in the table it still returns
\* every row whose bytes are sound.  The code does not do this: the
\* ValueError of np.frombuffer leaves the function.
ReadSkipsCorruptRows ==
    readCall.op = "get_all_entries" =>
        /\ ~readResult.raised
        /\ SoundIds \subseteq
               { readResult.entries[k].id : k \in 1..Len(readResult.entries) }
        /\ \A a, b \in 1..Len(readResult.entries) :
               a < b => readResult.entries[a].timestamp
                            > readResult.entries[b].timestamp

\* The text insert_entry is to store for a frame: the description when the
\* description service gave one for the frame, otherwise the cleaned text
ExpectedText(raw_text, description) ==
    IF description # None THEN description ELSE clean_ocr_text(raw_text)

WrittenAssetIsFound ==
    [][\A timestamp \in 1..MaxTimestamp, i \in 0..MaxMonitor :
          FileName(timestamp, i, "webp") \in files' \ files =>
              /\ vision_screenshot_path(files', timestamp)
                     = FileName(timestamp, i, "webp")
              /\ find_screenshot_file(timestamp)'
                     = FileName(timestamp, i, "webp")]_vars

\* The whitespace-separated tokens of the text a cleaner returned
Tokens == Split(readResult.text)

\* A run of four or more equal word characters
HasLongRun(w) ==
    \E i \in 1..(Len(w) - 3) :
        /\ IsWordChar(Char(w, i))
        /\ \A j \in 1..3 : Char(w, i + j) = Char(w, i)

Cleaned == readCall.op = "clean_ocr_text"

\* C18 as stated: the text a cleaner returns is at most the bound long and
\* each of its tokens has 2 to 25 characters, an alphabetic character and
\* no run of four or more equal word characters.  The cut at the bound can
\* leave a last token for which this is false.
EveryTokenIsValid ==
    Cleaned =>
        /\ Len(readResult.text) <= readCall.limit
        /\ \A k \in 1..Len(Tokens) :
               /\ Len(Tokens[k]) >= 2
               /\ Len(Tokens[k]) <= 25
               /\ AnyAlpha(Tokens[k])
               /\ ~HasLongRun(Tokens[k])

\* C18: the text a cleaner returns is at most the bound long; no token is
\* longer than 25 characters or has a run of four or more equal word
\* characters; and every token, but for the last one of a text that is as
\* long as the bound, has at least 2 characters and an alphabetic one.
EveryTokenIsValidButTheCutOne ==
    Cleaned =>
        /\ Len(readResult.text) <= readCall.limit
        /\ \A k \in 1..Len(Tokens) :
               /\ Len(Tokens[k]) <= 25
               /\ ~HasLongRun(Tokens[k])
               /\ (k < Len(Tokens) \/ Len(readResult.text) < readCall.limit)
                      => /\ Len(Tokens[k]) >= 2
                         /\ AnyAlpha(Tokens[k])

\* A text of three words cut at the bound, whose last word "ab" is left
\* with one character.
CutLeavesOneCharacter ==
    /\ Cleaned
    /\ Len(readResult.text) = readCall.limit
    /\ Len(Tokens) = 3
    /\ Tokens[3] = "a"

\* The ids of the entries some reprocessing run has rewritten
RevisedIds == UNION { runs[k].written : k \in 1..Len(runs) }

\* C19: every id in the ProcessingCache, in memory or in its file, is the id
\* of an entry that a reprocessing run has rewritten, an id being added
\* only once the batch holding the entry is committed.  The code does not
\* do this: candidate selection adds the id of every entry whose text looks
\* refined, and no run has rewritten it.
CachedIdsWereRevised ==
    /\ processed_ids \subseteq RevisedIds
    /\ load_cache(cacheFile) \subseteq RevisedIds

\* C20: the cache is written to its file at each step that brings the count
\* of completed entries to a multiple of CHECKPOINT_INTERVAL, and at the
\* step in which run_processing returns the file holds the ids the cache
\* holds in memory.  The code does not do the second: a run that finds
\* nothing to process returns without writing the ids that the selection
\* added.
CachePersistedAtCheckpointsAndReturn ==
    [][/\ (completed' = completed + 1
              /\ completed' % CHECKPOINT_INTERVAL = 0)
              => cacheFile' = save_cache(processed_ids')
       /\ (pc # "done" /\ pc' = "done")
              => load_cache(cacheFile') = processed_ids']_vars

\* C21: within one reprocessing run, forced or not, no row is rewritten by
\* more than one batch update.
FinalizedAtMostOnce ==
    \A r \in 1..Len(runs) :
        \A i \in DOMAIN runs[r].writes : runs[r].writes[i] <= 1

\* A forced run over three entries has finished, its two batch updates
\* having rewritten each of the three rows once.
ForcedRunWroteEachRowOnce ==
    /\ pc = "done"
    /\ Len(runs) > 0
    /\ LastRun.force
    /\ LastRun.status = "finished"
    /\ total_updated = NumEntries
    /\ \A i \in DOMAIN LastRun.writes : LastRun.writes[i] = 1


\* C22: once stop() has been called the capture loop inserts no further
\* entry, neither for the frame in progress nor for the remaining monitors
\* of the cycle.  The code does not do this: in the for loop it reads only
\* is_paused, which stop() leaves false.
NoInsertAfterStop ==
    [][terminal => entries' = entries]_vars

\* C23: after stop() is called the capture thread eventually leaves its
\* loop.  The code does not do this when the thread is not in the pause
\* wait at the stop: the only break is under "if is_paused", which is false
\* in state Stopped.
StoppedLoopExits ==
    terminal ~> loopPc = "exited"


\* C24: the two writers never write the same row.  A step of insert_entry
\* leaves the table as it is or appends one row whose timestamp was not
\* stored, changing no row; a step of a reprocessing run creates no row and
\* changes only rows that were candidates at the selection of the run,
\* keeping their timestamps.
WritersWriteDisjointRows ==
    [][IF UNCHANGED reprocVars
       THEN \/ entries' = entries
            \/ /\ Len(entries') = Len(entries) + 1
               /\ SubSeq(entries', 1, Len(entries)) = entries
               /\ entries'[Len(entries')].timestamp \notin Timestamps(entries)
       ELSE /\ Len(entries') = Len(entries)
            /\ \A i \in 1..Len(entries) :
                   entries'[i] # entries[i]
                       => /\ i \in IdsOf(LastRun.cands)
                          /\ entries'[i].timestamp = entries[i].timestamp]_vars

\* A forced run has rewritten a row, and a row was inserted after the run
\* selected its candidates (a forced run without limit selects every row).
BothWritersWrote ==
    /\ Len(runs) > 0
    /\ LastRun.force
    /\ LastRun.selected
    /\ \E i \in DOMAIN LastRun.writes : LastRun.writes[i] = 1
    /\ Len(entries) > Len(LastRun.cands)


\* C25: in a cycle that takes its screenshots with no frames retained, or
\* with a number of frames other than the number retained, the new frames
\* become the retained ones and the cycle ends there: no frame is compared
\* or processed, no image is saved and no entry is inserted.
BaselineCycleInsertsNothing ==
    [][(/\ loopPc = "shoot"
        /\ loopPc' # "shoot"
        /\ \/ ~last_screenshots.set
           \/ Len(last_screenshots.frames) # Len(screenshots'))
          => /\ last_screenshots' = [set |-> TRUE, frames |-> screenshots']
             /\ loopPc' = "top"
             /\ entries' = entries
             /\ files' = files]_vars

\* The loop has processed a frame of a second monitor, and has since
\* re-baselined on the screenshot of one monitor.
RebaselinedOnOneMonitor ==
    /\ loopPc = "top"
    /\ \E t \in 1..MaxTimestamp : FileName(t, 1, "webp") \in files
    /\ last_screenshots = [set |-> TRUE, frames |-> screenshots]
    /\ Len(screenshots) = 1


\* C26: the entries the capture loop commits in one cycle carry one
\* timestamp, and the entries it creates over the run are in non-decreasing
\* order of timestamp.  The code does not do the first: it reads the clock
\* for each changed frame, inside the loop over the monitors.
OneTimestampPerCycle ==
    /\ Cardinality(cycleStamps) <= 1
    /\ \A i, j \in 1..Len(entries) :
           i < j => entries[i].timestamp <= entries[j].timestamp


\* The frame of monitor k - 1 taken in this cycle has a similarity of at
\* least 0.9 to the frame retained for that monitor.
SimilarToRetained(k) ==
    LET similarity == mean_structured_similarity_index(
                          screenshots[k], last_screenshots.frames[k])
    IN  10 * similarity.num >= 9 * similarity.den

\* C27: a captured frame is compared with the frame retained for its
\* monitor.  The retained frames change only at a re-baselining, where the
\* new list replaces them, or in the processing of a frame that is not
\* similar to the retained one, which it replaces; the processing of a
\* frame that is similar leaves the retained frames, the stored entries and
\* the saved images unchanged.
RetainedReplacedOnlyWhenChanged ==
    [][/\ last_screenshots' # last_screenshots
          => \/ /\ loopPc = "shoot"
                /\ last_screenshots' = [set |-> TRUE, frames |-> screenshots']
             \/ /\ loopPc = "process"
                /\ ~SimilarToRetained(mon + 1)
                /\ last_screenshots' =
                       [last_screenshots EXCEPT
                            !.frames[mon + 1] = screenshots[mon + 1]]
       /\ (loopPc = "process" /\ loopPc' # "process"
              /\ SimilarToRetained(mon + 1))
          => /\ last_screenshots' = last_screenshots
             /\ entries' = entries
             /\ files' = files]_vars

\* The frame of the first monitor was processed and, being similar to the
\* retained one though not equal to it, did not replace it.
SimilarFrameNotRetained ==
    /\ loopPc = "frame"
    /\ mon = 1
    /\ last_screenshots.set
    /\ screenshots[1] # last_screenshots.frames[1]


\* C28, as stated: from the return of pause() until resume() or stop(), the
\* capture loop takes no screenshots, and processes at most the one frame
\* that was in progress.
NoCaptureWhilePaused ==
    ctlState = "Paused"
        => sincePause.shots = 0 /\ sincePause.frames <= 1

\* C28, as the code has it: from the return of pause() until resume() or
\* stop(), the capture loop does at most one of two things, once: it takes
\* one more set of screenshots, none of whose frames it processes, or it
\* processes the one frame that was in progress.
PausedLoopSettles ==
    ctlState = "Paused"
        => sincePause.shots + sincePause.frames <= 1

\* The capture thread is blocked in wait_if_paused() after having taken a
\* set of screenshots since pause() returned.
BlockedAfterOneMoreShot ==
    /\ ctlState = "Paused"
    /\ sincePause.shots = 1
    /\ loopPc = "wait"
    /\ waiters[CaptureThread].pc = "blocked"


\* The ids of the entries whose worker has completed
CompletedIds == { run_entries[k].id : k \in done_ids }

\* C29: in a reprocessing run every completed worker result is given to
\* exactly one call of update_database_batch.  While results are collected,
\* a completed result either waits in results_batch, never given to a call,
\* or has been given to one call; the result of an entry not completed has
\* been given to none; after the final batch every result of the run has
\* been given to exactly one call.
EachResultHandedOnce ==
    (Len(runs) > 0 /\ LastRun.status \in {"running", "finished"}
         /\ LastRun.selected)
        => \A i \in DOMAIN LastRun.handed :
               LET waits == IF i \in HandedIds(results_batch) THEN 1 ELSE 0
               IN  CASE pc = "loop" \/ pc = "final" ->
                            IF i \in CompletedIds
                            THEN LastRun.handed[i] + waits = 1
                            ELSE LastRun.handed[i] = 0 /\ waits = 0
                     [] OTHER -> LastRun.handed[i] = 1

\* A run over three entries has returned after a full batch of two results
\* and a final batch of one.
FinalBatchOfOneHanded ==
    /\ pc = "done"
    /\ Len(runs) > 0
    /\ LastRun.status = "finished"
    /\ Len(run_entries) = NumEntries
    /\ Len(results_batch) = 1
    /\ \A i \in DOMAIN LastRun.handed : LastRun.handed[i] = 1


\* The blob is what a write path of the repository stores for an embedding
\* of EmbDim floats: float32 bytes (insert_entry, the batch update) or
\* float64 bytes (rebuild_embeddings).
WrittenByRepository(blob) ==
    \E width \in { FLOAT32, FLOAT64 } :
        blob = ToBytes(get_embedding(blob.of), width)

\* C30: an embedding of n floats written by a write path of the repository
\* is read back by get_all_entries as a vector of n values, and a search
\* whose query embedding has n values sees it as a vector of n values and
\* keeps its entry.  The code does not do this: get_all_entries reads every
\* blob as float32 and search reads the result again as float64.
EmbeddingRoundTrips ==
    /\ (readCall.op = "get_all_entries" /\ ~readResult.raised)
           => \A k \in 1..Len(readResult.entries) :
                  LET blob == entries[readResult.entries[k].id].embedding
                  IN  WrittenByRepository(blob)
                          => readResult.entries[k].embedding.n = blob.n
    /\ (readCall.op = "search"
            /\ readResult.kind \in {"results", "no_matches"})
           => \A i \in 1..Len(entries) :
                  WrittenByRepository(entries[i].embedding)
                      => /\ readResult.kind = "results"
                         /\ \E k \in 1..Len(readResult.ranked) :
                                readResult.ranked[k].id = i

=============================================================================
